---- MODULE Spec2Model ----
(***************************************************************************)
(* Model of host-macro/src/characteristic.rs: the parser of the            *)
(* #[characteristic(...)] attribute (CharacteristicArgs::parse) and the    *)
(* assembly of a Characteristic from a field (Characteristic::new).        *)
(*                                                                         *)
(* An attribute is a sequence of items.  An item is a path (a sequence of  *)
(* segments), optionally followed by "= rhs"; rhs is a string literal, an  *)
(* identifier or another expression.  The scan is the loop of              *)
(* syn's parse_nested_meta: one call of the closure of lines 92-128 per    *)
(* item, stopping at the first Err.                                        *)
(***************************************************************************)
EXTENDS Integers, Sequences, FiniteSets, TLC

VARIABLES
    items,           \* the items of the attribute, in source order
    pos,             \* how many items the scan has consumed
    args,            \* the accumulator of parse, `let mut args`
    status,          \* "scanning", or what parse returned: "ok" or "err"
    err,             \* the error parse returned, NoError otherwise
    field,           \* the field handed to Characteristic::new, if any yet
    characteristic   \* what Characteristic::new produced, if called

vars == <<items, pos, args, status, err, field, characteristic>>

\* ------------------------------------------------------------------ bounds

\* Longest item sequence drawn from the whole item universe.
MaxLen == 3

\* ------------------------------------------------------------- Option<T>

None == <<>>

Some(v) == <<v>>

is_none(o) == o = <<>>

\* ------------------------------------------------------------------ items

Rhs(kind, text) == [kind |-> kind, text |-> text]

NoRhs == Rhs("none", "")

Item(path, rhs) == [path |-> path, rhs |-> rhs]

Bare(key) == Item(<<key>>, NoRhs)

KeyValue(key, kind, text) == Item(<<key>>, Rhs(kind, text))

\* The six capability flags of CharacteristicArgs.
FlagKeys == {"read", "write", "write_without_response", "notify", "indicate", "app_managed"}

\* The items the model draws attribute contents from.
ItemUniverse ==
    {Bare(k) : k \in FlagKeys}
    \cup {KeyValue("read", "expr", "true")}
    \cup {Bare("uuid"),
          KeyValue("uuid", "str", "0x2A37"),
          KeyValue("uuid", "str", "0x2a37"),
          KeyValue("uuid", "str", "0x180D"),
          KeyValue("uuid", "str", "zz"),
          KeyValue("uuid", "ident", "HEART_RATE")}
    \cup {Bare("value"),
          KeyValue("value", "expr", "[0; 4]"),
          KeyValue("value", "str", "hello")}
    \cup {Bare("on_read"),
          KeyValue("on_read", "ident", "my_callback"),
          KeyValue("on_read", "ident", "other_callback"),
          KeyValue("on_read", "str", "my_callback")}
    \cup {Bare("on_write"),
          KeyValue("on_write", "ident", "my_callback"),
          KeyValue("on_write", "expr", "[0; 4]")}
    \cup {Bare("foo"),
          Bare("descriptor"),
          KeyValue("descriptor", "str", "0x2A37"),
          Item(<<"ble", "read">>, NoRhs)}

\* ------------------------------------------------------- external: Uuid

\* The strings Uuid::from_string accepts, with the UUID each denotes.
UuidValue(s) ==
    CASE s = "0x2A37" -> 10807
      [] s = "0x2a37" -> 10807
      [] s = "0x180D" -> 6157
      [] OTHER -> -1

\* Uuid::from_string: Ok(uuid) or Err(parse error).
Uuid_from_string(s) ==
    IF UuidValue(s) >= 0
    THEN [ok |-> TRUE, val |-> UuidValue(s), msg |-> ""]
    ELSE [ok |-> FALSE, val |-> -1, msg |-> "Invalid UUID"]

\* ------------------------------------------------- CharacteristicArgs

\* CharacteristicArgs::default().
CharacteristicArgs_default ==
    [uuid |-> None,
     read |-> FALSE,
     write |-> FALSE,
     write_without_response |-> FALSE,
     notify |-> FALSE,
     indicate |-> FALSE,
     value |-> None,
     on_write |-> None,
     on_read |-> None,
     app_managed |-> FALSE,
     _descriptor |-> <<>>]

\* ------------------------------------------------------------ diagnostics

\* span 0 is the call site (the whole attribute); span i > 0 is item i.
CallSite == 0

Diag(kind, key, span, listed) == [kind |-> kind, key |-> key, span |-> span, listed |-> listed]

NoError == Diag("none", "", CallSite, {})

\* Mutant of SupportedInMessage: the message was not extended when the
\* app_managed arm was added.
SupportedInMessage_Stale ==
    {"uuid", "read", "write", "write_without_response", "notify", "indicate",
     "value", "on_read", "on_write"}

\* The property names the message of lines 121-125 enumerates.
SupportedInMessage ==
    {"uuid", "read", "write", "write_without_response", "notify", "indicate",
     "value", "on_read", "on_write", "app_managed"}

\* meta.error(format!("Unsupported characteristic property: '{other}'. ...")).
UnsupportedError(other, i) == Diag("Unsupported", other, i, SupportedInMessage)

\* Error::custom("<key> must be followed by '= [...]'...").
MissingValueError(key) == Diag("MissingValue", key, CallSite, {})

\* Error::custom("no ident").
NoIdentError == Diag("NoIdent", "", CallSite, {})

\* value.parse()? failing: syn's error at the offending tokens.
MalformedValueError(key, i) == Diag("MalformedValue", key, i, {})

\* Uuid::from_string(..)? failing: the UUID parser's error, passed through.
InvalidUuidError(msg) == Diag("InvalidUuid", msg, CallSite, {})

\* input.parse::<Token![,]>()? failing after an item that left tokens behind.
ExpectedCommaError(i) == Diag("ExpectedComma", "", i, {})

\* Error::custom("Characteristic must have a UUID").
MissingUuidError == Diag("MissingUuid", "", CallSite, {})

\* ------------------------------------------- the closure, lines 92-128

\* What one call of the closure yields: the accumulator, the error (NoError
\* for Ok(())) and whether the item's "= rhs" tokens are left unread.
Outcome(a, e, rest) == [args |-> a, err |-> e, rest |-> rest]

Ok(a, rest) == Outcome(a, NoError, rest)

Err(a, e) == Outcome(a, e, FALSE)

\* syn's Path::get_ident: the only segment of a single-segment path.
get_ident(path) == IF Len(path) = 1 THEN Some(path[1]) ELSE None

\* meta.value(): Ok when the key is followed by "=".
has_value(item) == item.rhs.kind # "none"

\* value.parse::<LitStr>() accepts a string literal only.
parses_as_LitStr(rhs) == rhs.kind = "str"

\* value.parse::<syn::Ident>() accepts an identifier only.
parses_as_Ident(rhs) == rhs.kind = "ident"

\* value.parse::<syn::Expr>() accepts literals, paths and other expressions.
parses_as_Expr(rhs) == rhs.kind \in {"str", "ident", "expr"}

\* Mutant of ParseUuid: a rejected string is dropped (from_string(..).ok())
\* instead of ending parse with the UUID parser's error.
ParseUuid_DropsError(a, item, i) ==
    IF ~has_value(item) THEN Err(a, MissingValueError("uuid"))
    ELSE IF ~parses_as_LitStr(item.rhs) THEN Err(a, MalformedValueError("uuid", i))
    ELSE LET r == Uuid_from_string(item.rhs.text)
         IN  Ok([a EXCEPT !.uuid = IF r.ok THEN Some(r.val) ELSE None], FALSE)

\* The "uuid" arm, lines 94-100.
ParseUuid(a, item, i) ==
    IF ~has_value(item) THEN Err(a, MissingValueError("uuid"))
    ELSE IF ~parses_as_LitStr(item.rhs) THEN Err(a, MalformedValueError("uuid", i))
    ELSE LET r == Uuid_from_string(item.rhs.text)
         IN  IF r.ok THEN Ok([a EXCEPT !.uuid = Some(r.val)], FALSE)
             ELSE Err(a, InvalidUuidError(r.msg))

\* Mutant of SetFlag: the write_without_response arm sets write.
SetFlag_WrongField(a, item, key) ==
    Ok([a EXCEPT ![IF key = "write_without_response" THEN "write" ELSE key] = TRUE],
       has_value(item))

\* The flag arms, lines 101-105 and 120: the "= rhs" of the item, if any, is
\* not read.
SetFlag(a, item, key) ==
    Ok([a EXCEPT ![key] = TRUE], has_value(item))

\* The "value" arm, lines 106-111.
ParseValue(a, item, i) ==
    IF ~has_value(item) THEN Err(a, MissingValueError("value"))
    ELSE IF ~parses_as_Expr(item.rhs) THEN Err(a, MalformedValueError("value", i))
    ELSE Ok([a EXCEPT !.value = Some(item.rhs)], FALSE)

\* The "on_write" arm, lines 112-115.
ParseOnWrite(a, item, i) ==
    IF ~has_value(item) THEN Err(a, MissingValueError("on_write"))
    ELSE IF ~parses_as_Ident(item.rhs) THEN Err(a, MalformedValueError("on_write", i))
    ELSE Ok([a EXCEPT !.on_write = Some(item.rhs.text)], FALSE)

\* Mutant of ParseOnRead: the arm copied from on_write keeps its message.
ParseOnRead_WrongMessage(a, item, i) ==
    IF ~has_value(item) THEN Err(a, MissingValueError("on_write"))
    ELSE IF ~parses_as_Ident(item.rhs) THEN Err(a, MalformedValueError("on_read", i))
    ELSE Ok([a EXCEPT !.on_read = Some(item.rhs.text)], FALSE)

\* Mutant of ParseOnRead: the arm copied from on_write keeps its field.
ParseOnRead_WrongField(a, item, i) ==
    IF ~has_value(item) THEN Err(a, MissingValueError("on_read"))
    ELSE IF ~parses_as_Ident(item.rhs) THEN Err(a, MalformedValueError("on_read", i))
    ELSE Ok([a EXCEPT !.on_write = Some(item.rhs.text)], FALSE)

\* The "on_read" arm, lines 116-119.
ParseOnRead(a, item, i) ==
    IF ~has_value(item) THEN Err(a, MissingValueError("on_read"))
    ELSE IF ~parses_as_Ident(item.rhs) THEN Err(a, MalformedValueError("on_read", i))
    ELSE Ok([a EXCEPT !.on_read = Some(item.rhs.text)], FALSE)

\* Mutant of OtherKey: a `descriptor` key is taken and fills _descriptor.
OtherKey_TakesDescriptor(a, item, i, other) ==
    IF other = "descriptor"
    THEN Ok([a EXCEPT !._descriptor = Append(@, item.rhs)], FALSE)
    ELSE Err(a, UnsupportedError(other, i))

\* The "other" arm, lines 121-125.
OtherKey(a, item, i, other) == Err(a, UnsupportedError(other, i))

\* The match of lines 93-126 on the key's text.
Dispatch(a, item, i, key) ==
    CASE key = "uuid" -> ParseUuid(a, item, i)
      [] key = "read" -> SetFlag(a, item, "read")
      [] key = "write" -> SetFlag(a, item, "write")
      [] key = "write_without_response" -> SetFlag(a, item, "write_without_response")
      [] key = "notify" -> SetFlag(a, item, "notify")
      [] key = "indicate" -> SetFlag(a, item, "indicate")
      [] key = "value" -> ParseValue(a, item, i)
      [] key = "on_write" -> ParseOnWrite(a, item, i)
      [] key = "on_read" -> ParseOnRead(a, item, i)
      [] key = "app_managed" -> SetFlag(a, item, "app_managed")
      [] OTHER -> OtherKey(a, item, i, key)

\* One call of the closure on item i, lines 92-128.
Closure(a, item, i) ==
    LET ident == get_ident(item.path)
    IN  IF is_none(ident) THEN Err(a, NoIdentError)
        ELSE Dispatch(a, item, i, ident[1])

\* One turn of syn's parse_nested_meta loop on item i: the closure, then the
\* separator, which the unread "= rhs" of a flag item is not.
ScanItem(a, item, i) ==
    LET o == Closure(a, item, i)
    IN  IF o.err # NoError THEN o
        ELSE IF o.rest THEN Err(o.args, ExpectedCommaError(i))
        ELSE o

\* Mutant of PostPass: the UUID check is left out.
PostPass_NoCheck(a) == NoError

\* The validation after the scan, lines 129-132: Ok(args) or the missing-UUID
\* error.
PostPass(a) == IF is_none(a.uuid) THEN MissingUuidError ELSE NoError

\* ------------------------------------------------- Characteristic::new

Field(ident, ty, vis) == [ident |-> ident, ty |-> ty, vis |-> vis]

Type(text, span) == [text |-> text, span |-> span]

\* The fields the model hands to Characteristic::new: two named fields and a
\* tuple field, which has no identifier.
Fields ==
    {Field(Some("temperature"), Type("u8", "12:9"), "pub"),
     Field(Some("level"), Type("[u8; 4]", "15:11"), "inherited"),
     Field(None, Type("u8", "18:16"), "pub(crate)")}

Built(c) == [panicked |-> FALSE, msg |-> "", val |-> Some(c)]

Panic(msg) == [panicked |-> TRUE, msg |-> msg, val |-> None]

NotCalled == [panicked |-> FALSE, msg |-> "", val |-> None]

\* Mutant of Characteristic_new: the record is rebuilt from its defaults.
Characteristic_new_DefaultArgs(f, a) ==
    IF is_none(f.ident) THEN Panic("Field had no Identity")
    ELSE Built([name |-> f.ident[1],
                ty |-> f.ty,
                args |-> CharacteristicArgs_default,
                span |-> f.ty.span,
                vis |-> f.vis])

\* Characteristic::new, lines 26-34.
Characteristic_new(f, a) ==
    IF is_none(f.ident) THEN Panic("Field had no Identity")
    ELSE Built([name |-> f.ident[1],
                ty |-> f.ty,
                args |-> a,
                span |-> f.ty.span,
                vis |-> f.vis])

\* ------------------------------------------------------------ the inputs

Reverse(s) == [i \in 1..Len(s) |-> s[Len(s) + 1 - i]]

InsertAt(s, p, x) == SubSeq(s, 1, p) \o <<x>> \o SubSeq(s, p + 1, Len(s))

FlagOrder == <<"read", "write", "write_without_response", "notify", "indicate", "app_managed">>

FlagsOf(S) == SelectSeq(FlagOrder, LAMBDA k : k \in S)

BareSeq(keys) == [i \in 1..Len(keys) |-> Bare(keys[i])]

\* Every item sequence of at most MaxLen items of the universe.
ShortSeqs == UNION {[1..n -> ItemUniverse] : n \in 0..MaxLen}

\* Every subset of the flags as bare keys, in declaration order or reversed,
\* with one valid uuid item at any place.
FlagSeqs ==
    {InsertAt(fs, p, KeyValue("uuid", "str", "0x2A37")) :
        <<fs, p>> \in {<<t, q>> \in
            ({BareSeq(FlagsOf(S)) : S \in SUBSET FlagKeys}
               \cup {Reverse(BareSeq(FlagsOf(S))) : S \in SUBSET FlagKeys})
            \X (0..Cardinality(FlagKeys)) : q <= Len(t)}}

\* ------------------------------------------------------- the state machine

Init ==
    /\ items \in ShortSeqs \cup FlagSeqs
    /\ pos = 0
    /\ args = CharacteristicArgs_default
    /\ status = "scanning"
    /\ err = NoError
    /\ field = None
    /\ characteristic = NotCalled

\* Mutant of ParseItem: an Err is recorded and the scan goes on.
ParseItem_KeepsGoing ==
    /\ status = "scanning"
    /\ pos < Len(items)
    /\ LET o == ScanItem(args, items[pos + 1], pos + 1)
       IN  /\ args' = o.args
           /\ err' = IF o.err = NoError THEN err ELSE o.err
           /\ status' = "scanning"
    /\ pos' = pos + 1
    /\ UNCHANGED <<items, field, characteristic>>

\* One turn of the scan: the closure on the next item and the separator after
\* it; the first Err ends parse.
ParseItem ==
    /\ status = "scanning"
    /\ pos < Len(items)
    /\ LET o == ScanItem(args, items[pos + 1], pos + 1)
       IN  /\ args' = o.args
           /\ err' = o.err
           /\ status' = IF o.err = NoError THEN "scanning" ELSE "err"
    /\ pos' = pos + 1
    /\ UNCHANGED <<items, field, characteristic>>

\* The end of the scan, lines 129-132.
Finish ==
    /\ status = "scanning"
    /\ pos = Len(items)
    /\ err' = PostPass(args)
    /\ status' = IF PostPass(args) = NoError THEN "ok" ELSE "err"
    /\ UNCHANGED <<items, pos, args, field, characteristic>>

\* The caller binds the record parse returned to the annotated field.
New ==
    /\ status = "ok"
    /\ is_none(field)
    /\ \E f \in Fields :
          /\ field' = Some(f)
          /\ characteristic' = Characteristic_new(f, args)
    /\ UNCHANGED <<items, pos, args, status, err>>

Next == ParseItem \/ Finish \/ New

Spec == Init /\ [][Next]_vars

\* ---------------------------------------------- vocabulary of the claims

\* parse has returned (Ok or Err).
Returned == status \in {"ok", "err"}

\* Item `it` is written with key k.
HasKey(it, k) == it.path = <<k>>

\* The places of the items written with key k.
PlacesOf(seq, k) == {i \in 1..Len(seq) : HasKey(seq[i], k)}

\* The ten keys of the grammar table.
GrammarKeys ==
    {"uuid", "read", "write", "write_without_response", "notify", "indicate",
     "value", "on_write", "on_read", "app_managed"}

\* The keys that take the "= value" form.
ValueKeys == {"uuid", "value", "on_write", "on_read"}

\* The key of the item is an identifier outside the grammar table.
UnknownKey(it) == Len(it.path) = 1 /\ it.path[1] \notin GrammarKeys

\* An item in the form the grammar table gives for its key.
WellFormed(it) ==
    /\ Len(it.path) = 1
    /\ \/ it.path[1] \in FlagKeys /\ it.rhs.kind = "none"
       \/ it.path[1] = "uuid" /\ it.rhs.kind = "str" /\ Uuid_from_string(it.rhs.text).ok
       \/ it.path[1] = "value" /\ it.rhs.kind \in {"str", "ident", "expr"}
       \/ it.path[1] \in {"on_write", "on_read"} /\ it.rhs.kind = "ident"

\* The place of the first item that is not well formed, 0 when there is none.
FirstInvalid(seq) ==
    IF \A i \in 1..Len(seq) : WellFormed(seq[i]) THEN 0
    ELSE CHOOSE i \in 1..Len(seq) :
            /\ ~WellFormed(seq[i])
            /\ \A j \in 1..(i - 1) : WellFormed(seq[j])

\* The largest element of a non-empty set of places.
Last(S) == CHOOSE i \in S : \A j \in S : j <= i

\* ------------------------------------------------------------------ C1

\* C1 as stated: every item sequence without a `uuid` item fails with the
\* missing-UUID error, whatever its other items are.
C1_MissingUuidWhateverTheItems ==
    (Returned /\ PlacesOf(items, "uuid") = {})
        => (status = "err" /\ err.kind = "MissingUuid")

\* C1, amended: an item sequence without a `uuid` item never yields a record;
\* its error is the missing-UUID error exactly when every item is well formed,
\* and the error of the first malformed item otherwise.
C1_MissingUuid ==
    (Returned /\ PlacesOf(items, "uuid") = {})
        => /\ status = "err"
           /\ (err.kind = "MissingUuid") <=> (FirstInvalid(items) = 0)
           /\ (err.kind = "MissingUuid") => (pos = Len(items) /\ err.span = CallSite)

C1_Witness ==
    /\ items = <<Bare("read"), Bare("notify")>>
    /\ status = "err"
    /\ err.kind = "MissingUuid"

\* ------------------------------------------------------------------ C2

\* C2: an item whose key is an identifier outside the table, once the scan
\* comes to it, ends parse with the unsupported-key error attributed to that
\* item, whose message names the ten keys of the table; a key is rejected as
\* unsupported only if the message does not name it; and no sequence holding
\* such an item yields a record.
C2_UnknownKeyRejected ==
    /\ \A i \in 1..pos :
          UnknownKey(items[i])
             => /\ status = "err"
                /\ pos = i
                /\ err.kind = "Unsupported"
                /\ err.key = items[i].path[1]
                /\ err.span = i
                /\ err.listed = GrammarKeys
    /\ (status = "err" /\ err.kind = "Unsupported")
          => (UnknownKey(items[pos]) /\ items[pos].path[1] \notin err.listed)
    /\ status = "ok" => \A i \in 1..Len(items) : ~UnknownKey(items[i])

C2_Witness ==
    /\ items = <<KeyValue("uuid", "str", "0x2A37"), Bare("foo")>>
    /\ status = "err"
    /\ err.kind = "Unsupported"
    /\ err.span = 2

\* ------------------------------------------------------------------ C3

\* C3: the scan goes left to right and stops at the first item that is not
\* well formed: no later item is consumed, no record is returned, and the error
\* is the one that item yields on its own, whatever comes before or after it.
C3_FailFast ==
    LET k == FirstInvalid(items)
    IN  k > 0 =>
          /\ pos <= k
          /\ status # "ok"
          /\ (pos < k) => (status = "scanning")
          /\ (pos = k) =>
                /\ status = "err"
                /\ err = ScanItem(CharacteristicArgs_default, items[k], k).err
                /\ err.kind \notin {"none", "MissingUuid"}

C3_Witness ==
    /\ items = <<Bare("read"), Bare("foo"), KeyValue("uuid", "str", "0x2A37")>>
    /\ status = "err"
    /\ pos = 2
    /\ err.kind = "Unsupported"

\* ------------------------------------------------------------------ C4

\* C4 as stated: parse returns a record only for item sequences with exactly
\* one `uuid` item.
C4_ExactlyOneUuid ==
    status = "ok" => Cardinality(PlacesOf(items, "uuid")) = 1

\* ------------------------------------------------------------------ C5

\* Bare flag keys and exactly one valid `uuid` item, in any order.
FlagsAndOneUuid(seq) ==
    /\ Cardinality(PlacesOf(seq, "uuid")) = 1
    /\ \A i \in 1..Len(seq) :
          /\ WellFormed(seq[i])
          /\ seq[i].path[1] \in FlagKeys \cup {"uuid"}

\* C5: for bare flag keys with one valid uuid item, in any order, parse
\* succeeds; the flags that are true are exactly the ones written, and value,
\* on_read and on_write are empty.
C5_FlagIndependence ==
    (Returned /\ FlagsAndOneUuid(items))
        => /\ status = "ok"
           /\ \A k \in FlagKeys : args[k] <=> (PlacesOf(items, k) # {})
           /\ args.value = None /\ args.on_read = None /\ args.on_write = None
           /\ args.uuid # None

C5_Witness ==
    /\ status = "ok"
    /\ Len(items) = 7
    /\ HasKey(items[7], "uuid")
    /\ \A k \in FlagKeys : args[k]

\* ------------------------------------------------------------------ C6

\* C6: when the scan comes to a value-requiring key written without "= value",
\* parse ends with that key's own "must be followed by" error, the accumulator
\* is left as it was, and no record is returned.
C6_MissingValueSyntax ==
    [][\A k \in ValueKeys :
          (status = "scanning" /\ pos < Len(items) /\ items[pos + 1] = Bare(k))
             => /\ status' = "err"
                /\ err'.kind = "MissingValue"
                /\ err'.key = k
                /\ args' = args]_vars

C6_Witness ==
    /\ status = "err"
    /\ pos = 2
    /\ items[2] = Bare("on_read")
    /\ err.kind = "MissingValue"
    /\ err.key = "on_read"

\* ------------------------------------------------------------------ C7

\* One `uuid = "s"` item and every other item well formed.
OneUuidOtherwiseValid(seq) ==
    /\ Cardinality(PlacesOf(seq, "uuid")) = 1
    /\ \A i \in 1..Len(seq) :
          IF HasKey(seq[i], "uuid") THEN seq[i].rhs.kind = "str" ELSE WellFormed(seq[i])

\* C7: with one `uuid = "s"` item in an otherwise valid sequence, parse
\* succeeds with the UUID Uuid::from_string yields for s when it accepts s, and
\* fails with its error, returning no record, when it rejects s.
C7_UuidRoundTrip ==
    (Returned /\ OneUuidOtherwiseValid(items))
        => LET s == items[Last(PlacesOf(items, "uuid"))].rhs.text
               r == Uuid_from_string(s)
           IN  IF r.ok
               THEN status = "ok" /\ args.uuid = Some(r.val)
               ELSE status = "err" /\ err.kind = "InvalidUuid" /\ err.key = r.msg

C7_Witness ==
    /\ status = "ok"
    /\ Len(items) = 2
    /\ items[2] = KeyValue("uuid", "str", "0x2a37")
    /\ args.uuid = Some(10807)

\* ------------------------------------------------------------------ C8

\* What the last item written with key k carries, nothing when there is none.
Written(seq, k) ==
    IF PlacesOf(seq, k) = {} THEN None
    ELSE LET rhs == seq[Last(PlacesOf(seq, k))].rhs
         IN  Some(IF k = "value" THEN rhs ELSE rhs.text)

\* C8: a record that parse returns carries in on_read, on_write and value what
\* was written for the key, and nothing when the key does not occur; and the
\* step that reads one of these items changes that field only.
C8_PassThrough ==
    [][/\ status' = "ok" =>
             /\ args'.on_read = Written(items', "on_read")
             /\ args'.on_write = Written(items', "on_write")
             /\ args'.value = Written(items', "value")
       /\ \A k \in {"on_read", "on_write", "value"} :
             (status = "scanning" /\ status' = "scanning" /\ pos' = pos + 1
                  /\ HasKey(items[pos + 1], k))
                => args' = [args EXCEPT ![k] = Written(SubSeq(items, 1, pos + 1), k)]]_vars

C8_Witness ==
    /\ status = "ok"
    /\ args.on_read = Some("my_callback")
    /\ args.on_write = None
    /\ args.value = Some(Rhs("expr", "[0; 4]"))

\* ------------------------------------------------------------------ C9

\* C9: Characteristic::new on a named field returns the characteristic with
\* the field's name, type, span of the type and visibility and the record as
\* given; on a field without a name it panics and returns nothing.
C9_NewIsTotal ==
    ~is_none(field) =>
        LET f == field[1]
        IN  IF is_none(f.ident)
            THEN characteristic.panicked /\ characteristic.val = None
            ELSE /\ ~characteristic.panicked
                 /\ characteristic.val =
                       Some([name |-> f.ident[1], ty |-> f.ty, args |-> args,
                             span |-> f.ty.span, vis |-> f.vis])

C9_Witness ==
    /\ ~is_none(field)
    /\ ~characteristic.panicked
    /\ characteristic.val[1].name = "temperature"
    /\ characteristic.val[1].args.notify
    /\ characteristic.val[1].args.uuid = Some(10807)

\* ------------------------------------------------------------------ C10

\* C10: the accumulator's descriptor sequence is never populated, so every
\* record returned has none; and an item with key `descriptor`, once the scan
\* comes to it, is rejected as an unsupported key.
C10_NoDescriptors ==
    /\ args._descriptor = <<>>
    /\ \A i \in 1..pos :
          HasKey(items[i], "descriptor")
             => /\ status = "err"
                /\ pos = i
                /\ err.kind = "Unsupported"
                /\ err.key = "descriptor"

C10_Witness ==
    /\ status = "err"
    /\ pos = 2
    /\ items[1] = KeyValue("uuid", "str", "0x180D")
    /\ items[2] = KeyValue("descriptor", "str", "0x2A37")
    /\ err.kind = "Unsupported"

====
